---- MODULE Spec2Model ----
(***************************************************************************)
(* The background job manager of src/server.js (class JobManager and the  *)
(* /api routes that drive it).  One step of the model is one turn of the   *)
(* Node event loop: an HTTP handler run to its end, or the job runner      *)
(* (processJob) run from one await to the next.                            *)
(***************************************************************************)
EXTENDS Integers, Sequences, FiniteSets, TLC

VARIABLES
    configured,   \* BOT_TOKEN && CHANNEL_ID are set in the environment
    jobs,         \* JobManager.jobs: jobId -> job record
    clients,      \* JobManager.clients: jobId -> sequence of SSE handles (Set, insertion order)
    rt,           \* jobId -> the suspended processJob call or its eviction timer
    wrote,        \* handle -> the messages passed to res.write, in order
    conn,         \* handle -> the state of its connection and where it attached
    reply,        \* the last HTTP response of an /api route
    used,         \* job ids handed out by crypto.randomUUID so far
    env,          \* jobId -> what the remote and the callers have done to the job so far
    trace,        \* jobId -> history of the runner's steps
    emitted,      \* jobId -> every event passed to JobManager.emit, in order
    cloud         \* the cloud variant: the stored job, its rows and the process-job invocations

vars == <<configured, jobs, clients, rt, wrote, conn, reply, used, env, trace, emitted, cloud>>

\* the state of the server of src/server.js
serverVars == <<configured, jobs, clients, rt, wrote, conn, reply, used, env, trace, emitted>>

-----------------------------------------------------------------------------
(* Bounds of the exploration *)

MaxRows == 2          \* rows of a submission
MaxStops == 2         \* stop requests per job
MaxFaults == 1        \* answers other than ok per job, while handles may subscribe (Spec)
MaxRateLimits == 1    \* 429 answers per job (SpecRetry)
MaxThrows == 1        \* rejected fetch calls per job (SpecRetry)
MaxInvocations == 3   \* invocations of the process-job function per stored job
MaxTotal == 8         \* rows of a submission whose progress is followed (SpecProgress)

(* Program constants *)

maxAttempts == 5
BackoffBase == 1000
BackoffCap == 30000
RateLimitMargin == 1000
DefaultRetryAfter == 30
MessageDelay == 3500
BatchLimit == 20      \* rows one process-job invocation selects

JobIds == {"j1"}                  \* identifiers randomUUID can return
AllIds == JobIds \cup {"jx"}      \* identifiers a caller can present
Clients == {1, 2}                 \* SSE response handles, numbered as they connect
TargetFields == {"title", "description", "view", "download", "image"}

NoMapping == {"no mapping"}       \* req.body.mapping missing

\* A row is reduced to what the runner reads of it: whether the column that
\* mapping.image names holds a value.
Row == [image : BOOLEAN]

RECURSIVE SeqsUpTo(_, _)
SeqsUpTo(S, n) ==
    IF n = 0 THEN {<<>>}
    ELSE LET shorter == SeqsUpTo(S, n - 1)
         IN  shorter \cup {Append(s, x) : s \in {q \in shorter : Len(q) = n - 1}, x \in S}

\* req.body.rows: an array of rows, or missing / not an array
RowInputs ==
    {[array |-> TRUE, rows |-> s] : s \in SeqsUpTo(Row, MaxRows)}
    \cup {[array |-> FALSE, rows |-> <<>>]}
\* req.body.mapping: the target fields it supplies, or missing
MappingInputs == {TargetFields, TargetFields \ {"image"}, NoMapping}

\* The three outcome shapes of a sendPhoto call, and a rejected fetch.
RespOk == [kind |-> "ok", retry_after |-> 0, description |-> ""]
RespRate(ra) == [kind |-> "429", retry_after |-> ra, description |-> ""]
RespErr(d) == [kind |-> "error", retry_after |-> 0, description |-> d]
RespThrow(msg) == [kind |-> "throw", retry_after |-> 0, description |-> msg]
Responses ==
    {RespOk, RespRate(0), RespRate(5), RespErr("Bad Request"), RespThrow("network")}

-----------------------------------------------------------------------------
(* Helpers on maps *)

Put(f, k, v) == [x \in DOMAIN f \cup {k} |-> IF x = k THEN v ELSE f[x]]
Del(f, k) == [x \in DOMAIN f \ {k} |-> f[x]]
EmptyMap == [x \in {} |-> 0]

Min(a, b) == IF a < b THEN a ELSE b

RECURSIVE Pow2(_)
Pow2(n) == IF n = 0 THEN 1 ELSE 2 * Pow2(n - 1)

\* Round cutting the fraction off
RoundDown(num, den) == num \div den

\* Math.round(num / den) for num >= 0, den > 0 (halves round up)
Round(num, den) == (2 * num + den) \div (2 * den)

Range(s) == {s[k] : k \in 1..Len(s)}

-----------------------------------------------------------------------------
(* The runner works on m = [job, t, em, tr]: the job record, the locals of  *)
(* processJob, the events emitted in this turn and the steps taken in it.   *)

Event(name, data) == [event |-> name, data |-> data]

\* JobManager.emit, as seen from the runner: the event is queued for every
\* handle of the job (Deliver writes it).
EmitM(m, name, data) == [m EXCEPT !.em = Append(@, Event(name, data))]

\* JobManager.log
LogM(m, message) ==
    EmitM([m EXCEPT !.job.logs = Append(@, message)], "log", message)

ProgressData(job) ==
    [current |-> job.current, total |-> job.total, sent |-> job.sent,
     failed |-> job.failed, percent |-> Round(job.current * 100, job.total)]

\* JobManager.updateProgress
UpdateProgressM(m) == EmitM(m, "progress", ProgressData(m.job))

Step(m, s) == [m EXCEPT !.tr = Append(@, s)]

\* ImageUrl without the test of line 211
ImageUrlUnchecked(t) == TRUE

\* row[mapping.image] is truthy
ImageUrl(t) == "image" \in t.mapping /\ t.rows[t.i + 1].image

\* sleep(ms): the runner suspends; `wake` says where it resumes
SleepM(m, ms, wake) ==
    Step([m EXCEPT !.t.pc = "sleep", !.t.wake = wake, !.t.ms = ms],
         [t |-> "sleep", row |-> m.t.i + 1, ms |-> ms, wake |-> wake])

\* Finish setting the status completed whatever the stop flag says
FinishAlwaysCompleted(m) ==
    LET m1 == [m EXCEPT !.job.endTime = "set",
                        !.job.ends = @ + 1,
                        !.job.status = "completed"]
        m2 == LogM(m1, [kind |-> "completed", sent |-> m1.job.sent, failed |-> m1.job.failed])
        m3 == EmitM(m2, "done", [sent |-> m2.job.sent, failed |-> m2.job.failed,
                                  total |-> m2.job.total, duration |-> "elapsed"])
    IN  Step([m3 EXCEPT !.t.pc = "finished"], [t |-> "finish", status |-> m3.job.status])

\* Finish without the emit of lines 290-295
FinishSkipsDone(m) ==
    LET m1 == [m EXCEPT !.job.endTime = "set",
                        !.job.ends = @ + 1,
                        !.job.status = IF m.job.isStopped THEN "stopped" ELSE "completed"]
        m2 == LogM(m1, [kind |-> "completed", sent |-> m1.job.sent, failed |-> m1.job.failed])
    IN  Step([m2 EXCEPT !.t.pc = "finished"], [t |-> "finish", status |-> m2.job.status])

\* Lines 283-301: the end of processJob
Finish(m) ==
    LET m1 == [m EXCEPT !.job.endTime = "set",
                        !.job.ends = @ + 1,
                        !.job.status = IF m.job.isStopped THEN "stopped" ELSE "completed"]
        m2 == LogM(m1, [kind |-> "completed", sent |-> m1.job.sent, failed |-> m1.job.failed])
        m3 == EmitM(m2, "done", [sent |-> m2.job.sent, failed |-> m2.job.failed,
                                  total |-> m2.job.total, duration |-> "elapsed"])
    IN  Step([m3 EXCEPT !.t.pc = "finished"], [t |-> "finish", status |-> m3.job.status])

RECURSIVE ForLoop(_)
RECURSIVE WhileLoop(_)
RECURSIVE AfterWhile(_)

\* ForLoop without the stop check of lines 190-195
ForLoopNoStopCheck(m) ==
    IF m.t.i >= Len(m.t.rows) THEN Finish(m)
    ELSE LET m1 == Step([m EXCEPT !.job.current = m.t.i + 1],
                        [t |-> "row", row |-> m.t.i + 1])
         IN  IF ~ImageUrl(m.t)
             THEN LET m2 == [m1 EXCEPT !.job.failed = @ + 1]
                      m3 == LogM(m2, [kind |-> "noImage", row |-> m.t.i + 1])
                      m4 == [m3 EXCEPT !.job.errors =
                                Append(@, [row |-> m.t.i + 1, error |-> "No image URL"])]
                      m5 == Step(UpdateProgressM(m4), [t |-> "failed", row |-> m.t.i + 1])
                  IN  ForLoop([m5 EXCEPT !.t.i = @ + 1])
             ELSE WhileLoop([m1 EXCEPT !.t.success = FALSE, !.t.attempts = 0])

\* Lines 189-217: the for header and the body down to the retry loop
ForLoop(m) ==
    IF m.t.i >= Len(m.t.rows) THEN Finish(m)
    ELSE IF m.job.isStopped
    THEN Finish(LogM([m EXCEPT !.job.status = "stopped"],
                     [kind |-> "stoppedAt", i |-> m.t.i, n |-> Len(m.t.rows)]))
    ELSE LET m1 == Step([m EXCEPT !.job.current = m.t.i + 1],
                        [t |-> "row", row |-> m.t.i + 1])
         IN  IF ~ImageUrl(m.t)
             THEN LET m2 == [m1 EXCEPT !.job.failed = @ + 1]
                      m3 == LogM(m2, [kind |-> "noImage", row |-> m.t.i + 1])
                      m4 == [m3 EXCEPT !.job.errors =
                                Append(@, [row |-> m.t.i + 1, error |-> "No image URL"])]
                      m5 == Step(UpdateProgressM(m4), [t |-> "failed", row |-> m.t.i + 1])
                  IN  ForLoop([m5 EXCEPT !.t.i = @ + 1])
             ELSE WhileLoop([m1 EXCEPT !.t.success = FALSE, !.t.attempts = 0])

\* WhileLoop without the test of the stop flag
WhileLoopIgnoresStop(m) ==
    IF ~m.t.success /\ m.t.attempts < maxAttempts
    THEN Step([m EXCEPT !.t.attempts = @ + 1, !.t.pc = "fetch"],
              [t |-> "call", row |-> m.t.i + 1])
    ELSE AfterWhile(m)

\* WhileLoop testing attempts <= maxAttempts
WhileLoopOffByOne(m) ==
    IF ~m.t.success /\ m.t.attempts <= maxAttempts /\ ~m.job.isStopped
    THEN Step([m EXCEPT !.t.attempts = @ + 1, !.t.pc = "fetch"],
              [t |-> "call", row |-> m.t.i + 1])
    ELSE AfterWhile(m)

\* Line 224: the while header; a true test leads to the fetch of line 228
WhileLoop(m) ==
    IF ~m.t.success /\ m.t.attempts < maxAttempts /\ ~m.job.isStopped
    THEN Step([m EXCEPT !.t.attempts = @ + 1, !.t.pc = "fetch"],
              [t |-> "call", row |-> m.t.i + 1])
    ELSE AfterWhile(m)

\* Lines 275-281: after the retry loop
AfterWhile(m) ==
    LET m1 == UpdateProgressM(m)
    IN  IF m.t.success /\ m.t.i < Len(m.t.rows) - 1
        THEN SleepM(m1, MessageDelay, "delay")
        ELSE ForLoop([m1 EXCEPT !.t.i = @ + 1])

\* Catch counting the failure without recording it in job.errors
CatchSkipsErrorEntry(m, message) ==
    IF m.t.attempts >= maxAttempts
    THEN LET m1 == [m EXCEPT !.job.failed = @ + 1]
             m2 == LogM(m1, [kind |-> "failed", row |-> m.t.i + 1,
                             attempts |-> m.t.attempts, error |-> message])
         IN  WhileLoop(Step(m2, [t |-> "failed", row |-> m.t.i + 1]))
    ELSE LET backoff == Min(BackoffBase * Pow2(m.t.attempts), BackoffCap)
             m1 == LogM(m, [kind |-> "retry", row |-> m.t.i + 1, attempts |-> m.t.attempts,
                            error |-> message, backoff |-> backoff \div 1000])
         IN  SleepM(m1, backoff, "backoff")

\* Catch counting the row as failed on every failed attempt
CatchCountsEveryAttempt(m, message) ==
    LET m1 == [m EXCEPT !.job.failed = @ + 1,
                        !.job.errors = Append(@, [row |-> m.t.i + 1, error |-> message])]
        m2 == LogM(m1, [kind |-> "failed", row |-> m.t.i + 1,
                        attempts |-> m.t.attempts, error |-> message])
        m3 == Step(m2, [t |-> "failed", row |-> m.t.i + 1])
    IN  IF m.t.attempts >= maxAttempts THEN WhileLoop(m3)
        ELSE SleepM(m3, Min(BackoffBase * Pow2(m.t.attempts), BackoffCap), "backoff")

\* Catch ending the job when a row has used up its attempts
CatchAbortsJob(m, message) ==
    IF m.t.attempts >= maxAttempts
    THEN LET m1 == [m EXCEPT !.job.failed = @ + 1,
                             !.job.errors = Append(@, [row |-> m.t.i + 1, error |-> message])]
             m2 == LogM(m1, [kind |-> "failed", row |-> m.t.i + 1,
                             attempts |-> m.t.attempts, error |-> message])
         IN  Finish(Step(m2, [t |-> "failed", row |-> m.t.i + 1]))
    ELSE LET backoff == Min(BackoffBase * Pow2(m.t.attempts), BackoffCap)
             m1 == LogM(m, [kind |-> "retry", row |-> m.t.i + 1, attempts |-> m.t.attempts,
                            error |-> message, backoff |-> backoff \div 1000])
         IN  SleepM(m1, backoff, "backoff")

\* Lines 261-271: the catch block
Catch(m, message) ==
    IF m.t.attempts >= maxAttempts
    THEN LET m1 == [m EXCEPT !.job.failed = @ + 1,
                             !.job.errors = Append(@, [row |-> m.t.i + 1, error |-> message])]
             m2 == LogM(m1, [kind |-> "failed", row |-> m.t.i + 1,
                             attempts |-> m.t.attempts, error |-> message])
         IN  WhileLoop(Step(m2, [t |-> "failed", row |-> m.t.i + 1]))
    ELSE LET backoff == Min(BackoffBase * Pow2(m.t.attempts), BackoffCap)
             m1 == LogM(m, [kind |-> "retry", row |-> m.t.i + 1, attempts |-> m.t.attempts,
                            error |-> message, backoff |-> backoff \div 1000])
         IN  SleepM(m1, backoff, "backoff")

\* OnResponse waiting the default time whatever retry_after says
OnResponseIgnoresRetryAfter(m, resp) ==
    IF resp.kind = "ok"
    THEN LET m1 == [m EXCEPT !.job.sent = @ + 1, !.t.success = TRUE]
             m2 == LogM(m1, [kind |-> "rowSent", row |-> m.t.i + 1])
         IN  WhileLoop(Step(m2, [t |-> "sent", row |-> m.t.i + 1]))
    ELSE IF resp.kind = "429"
    THEN LET retryAfter == DefaultRetryAfter
             m1 == LogM(m, [kind |-> "rateLimited", retryAfter |-> retryAfter])
             m2 == EmitM(m1, "ratelimit", [retryAfter |-> retryAfter])
         IN  SleepM(m2, retryAfter * 1000 + RateLimitMargin, "rate")
    ELSE IF resp.kind = "error"
    THEN Catch(m, IF resp.description # "" THEN resp.description
                  ELSE "Unknown Telegram error")
    ELSE Catch(m, resp.description)

\* Lines 242-260: the answer of sendPhoto
OnResponse(m, resp) ==
    IF resp.kind = "ok"
    THEN LET m1 == [m EXCEPT !.job.sent = @ + 1, !.t.success = TRUE]
             m2 == LogM(m1, [kind |-> "rowSent", row |-> m.t.i + 1])
         IN  WhileLoop(Step(m2, [t |-> "sent", row |-> m.t.i + 1]))
    ELSE IF resp.kind = "429"
    THEN LET retryAfter == IF resp.retry_after # 0 THEN resp.retry_after
                           ELSE DefaultRetryAfter
             m1 == LogM(m, [kind |-> "rateLimited", retryAfter |-> retryAfter])
             m2 == EmitM(m1, "ratelimit", [retryAfter |-> retryAfter])
         IN  SleepM(m2, retryAfter * 1000 + RateLimitMargin, "rate")
    ELSE IF resp.kind = "error"
    THEN Catch(m, IF resp.description # "" THEN resp.description
                  ELSE "Unknown Telegram error")
    ELSE Catch(m, resp.description)

\* OnWake leaving a rate-limited attempt counted
OnWakeCountsRateLimit(m) ==
    IF m.t.wake = "rate" THEN WhileLoop(m)
    ELSE IF m.t.wake = "backoff" THEN WhileLoop(m)
    ELSE ForLoop([m EXCEPT !.t.i = @ + 1])

\* Lines 255-257, 270, 279: what follows each sleep
OnWake(m) ==
    IF m.t.wake = "rate" THEN WhileLoop([m EXCEPT !.t.attempts = @ - 1])
    ELSE IF m.t.wake = "backoff" THEN WhileLoop(m)
    ELSE ForLoop([m EXCEPT !.t.i = @ + 1])

\* Lines 182-187: the start of processJob
StartJob(m) ==
    LET m1 == [m EXCEPT !.job.status = "running"]
        m2 == LogM(m1, [kind |-> "start", n |-> Len(m.t.rows)])
        m3 == EmitM(m2, "started", [total |-> Len(m.t.rows)])
    IN  ForLoop(m3)

-----------------------------------------------------------------------------
(* Writing the turn's result back *)

\* res.write(message) throwing inside the try of lines 147-151
Thrown(e) == [event |-> e.event, data |-> e.data, threw |-> TRUE]

\* emit(): every queued event is passed to res.write of every handle of the
\* job; a write that throws is caught and nothing else is done about it
Deliver(w, handles, em) ==
    [c \in Clients |->
        IF c \notin Range(handles) THEN w[c]
        ELSE IF conn[c].state = "broken"
        THEN w[c] \o [k \in 1..Len(em) |-> Thrown(em[k])]
        ELSE w[c] \o em]

Handles(id) == IF id \in DOMAIN clients THEN clients[id] ELSE <<>>

\* r is the turn's result, worked out once
Commit(id, m) ==
    \E r \in {m} :
        /\ jobs' = Put(jobs, id, r.job)
        /\ rt' = Put(rt, id, r.t)
        /\ wrote' = Deliver(wrote, Handles(id), r.em)
        /\ trace' = Put(trace, id, (IF id \in DOMAIN trace THEN trace[id] ELSE <<>>) \o r.tr)
        /\ emitted' = Put(emitted, id,
                          (IF id \in DOMAIN emitted THEN emitted[id] ELSE <<>>) \o r.em)

Machine(id) == [job |-> jobs[id], t |-> rt[id], em |-> <<>>, tr |-> <<>>]

NewEnv == [rate |-> 0, errors |-> 0, throws |-> 0, stops |-> 0]

-----------------------------------------------------------------------------
(* Actions *)

Reply(status, error) == [status |-> status, error |-> error]

\* JobManager.createJob (lines 88-111), with the synchronous part of processJob
CreateJob(id, rows, mapping) ==
    LET job == [id |-> id, status |-> "pending", total |-> Len(rows), sent |-> 0,
                failed |-> 0, current |-> 0, logs |-> <<>>, errors |-> <<>>,
                endTime |-> "null", ends |-> 0, isPaused |-> FALSE, isStopped |-> FALSE]
        t == [pc |-> "start", i |-> 0, attempts |-> 0, success |-> FALSE,
              wake |-> "none", ms |-> 0, rows |-> rows, mapping |-> mapping]
        m == StartJob([job |-> job, t |-> t, em |-> <<>>, tr |-> <<>>])
    IN  /\ Commit(id, m)
        /\ used' = used \cup {id}
        /\ env' = Put(env, id, NewEnv)

\* Send testing only that rows is an array
SendNoLengthCheck(body, mapping) ==
    IF ~body.array
    THEN /\ reply' = Reply(400, "No rows provided")
         /\ UNCHANGED <<configured, jobs, clients, rt, wrote, conn, used, env, trace, emitted>>
    ELSE IF mapping = NoMapping
    THEN /\ reply' = Reply(400, "No mapping provided")
         /\ UNCHANGED <<configured, jobs, clients, rt, wrote, conn, used, env, trace, emitted>>
    ELSE IF ~configured
    THEN /\ reply' = Reply(500, "Bot token or channel ID not configured")
         /\ UNCHANGED <<configured, jobs, clients, rt, wrote, conn, used, env, trace, emitted>>
    ELSE /\ \E id \in JobIds \ used : CreateJob(id, body.rows, mapping)
         /\ reply' = Reply(200, "")
         /\ UNCHANGED <<configured, clients, conn>>

\* POST /api/send (lines 361-388)
Send(body, mapping) ==
    IF ~body.array \/ Len(body.rows) = 0
    THEN /\ reply' = Reply(400, "No rows provided")
         /\ UNCHANGED <<configured, jobs, clients, rt, wrote, conn, used, env, trace, emitted>>
    ELSE IF mapping = NoMapping
    THEN /\ reply' = Reply(400, "No mapping provided")
         /\ UNCHANGED <<configured, jobs, clients, rt, wrote, conn, used, env, trace, emitted>>
    ELSE IF ~configured
    THEN /\ reply' = Reply(500, "Bot token or channel ID not configured")
         /\ UNCHANGED <<configured, jobs, clients, rt, wrote, conn, used, env, trace, emitted>>
    ELSE /\ \E id \in JobIds \ used : CreateJob(id, body.rows, mapping)
         /\ reply' = Reply(200, "")
         /\ UNCHANGED <<configured, clients, conn>>

\* The fetch of line 228 settles: lines 242-273 and on to the next await
FetchReturn(id, resp) ==
    /\ id \in DOMAIN rt
    /\ rt[id].pc = "fetch"
    /\ \E m0 \in {Step(Machine(id), [t |-> "resp", row |-> rt[id].i + 1, resp |-> resp])} :
          Commit(id, OnResponse(m0, resp))
    /\ env' = [env EXCEPT ![id].rate = @ + (IF resp.kind = "429" THEN 1 ELSE 0),
                          ![id].errors = @ + (IF resp.kind = "error" THEN 1 ELSE 0),
                          ![id].throws = @ + (IF resp.kind = "throw" THEN 1 ELSE 0)]
    /\ UNCHANGED <<configured, clients, conn, reply, used>>

\* A timer of sleep() fires
SleepReturn(id) ==
    /\ id \in DOMAIN rt
    /\ rt[id].pc = "sleep"
    /\ Commit(id, OnWake(Machine(id)))
    /\ UNCHANGED <<configured, clients, conn, reply, used, env>>

\* stopJob that also moves the job to stopped itself
StopJobSetsStatus(id) ==
    IF id \in DOMAIN jobs
    THEN LET m1 == [Machine(id) EXCEPT !.job.isStopped = TRUE, !.job.status = "stopped"]
             m2 == LogM(m1, [kind |-> "stoppedByUser"])
             m3 == EmitM(m2, "stopped", [message |-> "Job stopped"])
         IN  Commit(id, Step(m3, [t |-> "stop", row |-> jobs[id].current,
                                  pc |-> rt[id].pc]))
    ELSE UNCHANGED <<jobs, rt, wrote, trace, emitted>>

\* JobManager.stopJob (lines 117-124)
StopJob(id) ==
    IF id \in DOMAIN jobs
    THEN LET m1 == [Machine(id) EXCEPT !.job.isStopped = TRUE]
             m2 == LogM(m1, [kind |-> "stoppedByUser"])
             m3 == EmitM(m2, "stopped", [message |-> "Job stopped"])
         IN  Commit(id, Step(m3, [t |-> "stop", row |-> jobs[id].current,
                                  pc |-> rt[id].pc]))
    ELSE UNCHANGED <<jobs, rt, wrote, trace, emitted>>

\* StopRoute without the lookup of lines 443-447
StopRouteNoLookup(id) ==
    IF id \notin DOMAIN jobs
    THEN /\ reply' = Reply(200, "")
         /\ UNCHANGED <<configured, jobs, clients, rt, wrote, conn, used, env, trace, emitted>>
    ELSE /\ env[id].stops < MaxStops
         /\ StopJob(id)
         /\ env' = [env EXCEPT ![id].stops = @ + 1]
         /\ reply' = Reply(200, "")
         /\ UNCHANGED <<configured, clients, conn, used>>

\* POST /api/stop/:jobId (lines 441-451)
StopRoute(id) ==
    IF id \notin DOMAIN jobs
    THEN /\ reply' = Reply(404, "Job not found")
         /\ UNCHANGED <<configured, jobs, clients, rt, wrote, conn, used, env, trace, emitted>>
    ELSE /\ env[id].stops < MaxStops
         /\ StopJob(id)
         /\ env' = [env EXCEPT ![id].stops = @ + 1]
         /\ reply' = Reply(200, "")
         /\ UNCHANGED <<configured, clients, conn, used>>

\* GET /api/job/:jobId (lines 454-471); the body of a 200 answer is the job
\* record's id, status, total, sent, failed, current and errors as they are
JobRoute(id) ==
    /\ reply' = IF id \notin DOMAIN jobs THEN Reply(404, "Job not found")
                ELSE Reply(200, "")
    /\ UNCHANGED <<configured, jobs, clients, rt, wrote, conn, used, env, trace, emitted>>

\* Replay without the terminal event of lines 423-429
ReplayNoTerminal(job) ==
    <<Event("connected", [jobId |-> job.id, status |-> job.status])>>
    \o [k \in 1..Len(job.logs) |-> Event("log", job.logs[k])]
    \o <<Event("progress",
               [current |-> job.current, total |-> job.total, sent |-> job.sent,
                failed |-> job.failed,
                percent |-> IF job.total > 0 THEN Round(job.current * 100, job.total)
                            ELSE 0])>>

\* The replay of GET /api/events/:jobId (lines 405-429)
Replay(job) ==
    <<Event("connected", [jobId |-> job.id, status |-> job.status])>>
    \o [k \in 1..Len(job.logs) |-> Event("log", job.logs[k])]
    \o <<Event("progress",
               [current |-> job.current, total |-> job.total, sent |-> job.sent,
                failed |-> job.failed,
                percent |-> IF job.total > 0 THEN Round(job.current * 100, job.total)
                            ELSE 0])>>
    \o (IF job.status = "completed" \/ job.status = "stopped"
        THEN <<Event("done", [sent |-> job.sent, failed |-> job.failed,
                              total |-> job.total])>>
        ELSE <<>>)

\* addClient putting a fresh set in place of the job's set
AddClientReplaces(id, c) == clients' = Put(clients, id, <<c>>)

\* JobManager.addClient (lines 127-132)
AddClient(id, c) ==
    clients' = Put(clients, id,
                   IF c \in Range(Handles(id)) THEN Handles(id)
                   ELSE Append(Handles(id), c))

\* GET /api/events/:jobId (lines 391-438)
EventsRoute(id, c) ==
    /\ conn[c].state = "new"
    /\ \A b \in Clients : b < c => conn[b].state # "new"
    /\ IF id \notin DOMAIN jobs
       THEN /\ reply' = Reply(404, "Job not found")
            /\ UNCHANGED <<configured, jobs, clients, rt, wrote, conn, used, env, trace, emitted>>
       ELSE /\ wrote' = [wrote EXCEPT ![c] = @ \o Replay(jobs[id])]
            /\ AddClient(id, c)
            /\ conn' = [conn EXCEPT ![c] = [state |-> "open", job |-> id,
                                            at |-> Len(emitted[id]),
                                            pre |-> Len(Replay(jobs[id]))]]
            /\ reply' = Reply(200, "")
            /\ UNCHANGED <<configured, jobs, rt, used, env, trace, emitted>>

SelectSeq2(s, x) == SelectSeq(s, LAMBDA y : y # x)

\* A connection that is not attached to a job
Conn(state) == [state |-> state, job |-> "", at |-> 0, pre |-> 0]

\* req.on("close") -> JobManager.removeClient (lines 135-139, 435-437)
Close(c) ==
    /\ conn[c].state \in {"open", "broken"}
    /\ conn' = [conn EXCEPT ![c] = Conn("closed")]
    /\ clients' = [id \in DOMAIN clients |-> SelectSeq2(clients[id], c)]
    /\ wrote' = [wrote EXCEPT ![c] = <<>>]
    /\ UNCHANGED <<configured, jobs, rt, reply, used, env, trace, emitted>>

\* The socket of an attached handle fails: from now on res.write throws
Break(c) ==
    /\ conn[c].state = "open"
    /\ conn' = [conn EXCEPT ![c].state = "broken"]
    /\ UNCHANGED <<configured, jobs, clients, rt, wrote, reply, used, env, trace, emitted>>

\* Evict leaving the job's set of handles in place
EvictKeepsClients(id) ==
    /\ id \in DOMAIN rt
    /\ rt[id].pc = "finished"
    /\ jobs' = Del(jobs, id)
    /\ rt' = Del(rt, id)
    /\ UNCHANGED <<configured, clients, wrote, conn, reply, used, env, trace, emitted>>

\* The cleanup timer of lines 298-301 fires
Evict(id) ==
    /\ id \in DOMAIN rt
    /\ rt[id].pc = "finished"
    /\ jobs' = Del(jobs, id)
    /\ clients' = Del(clients, id)
    /\ rt' = Del(rt, id)
    /\ UNCHANGED <<configured, wrote, conn, reply, used, env, trace, emitted>>

-----------------------------------------------------------------------------
(* The cloud variant: src/functions/process-job.ts works on a job and its   *)
(* rows stored in a database; one step is the handler run from one await to *)
(* the next.  Several invocations may be in progress at once.               *)

Handlers == {1, 2}                \* invocations in progress at the same time, lowest free first

\* what sendPhoto answers the function: ok, rate-limited, or a failure
CloudResponses == {RespOk, RespRate(5), RespErr("Bad Request")}

\* the locals of one invocation
CloudLocal ==
    [pc |-> "idle", batch |-> <<>>, k |-> 0, sentCount |-> 0, failedCount |-> 0,
     latest |-> [sent |-> 0, failed |-> 0, current |-> 0]]

\* The database after the browser has stored a job and its rows
\* (src/public/app.js, lines 326-356)
CloudDb(rows) ==
    [job |-> [status |-> "pending", sent |-> 0, failed |-> 0, current |-> 0,
              total |-> Len(rows)],
     rows |-> [k \in 1..Len(rows) |-> [image |-> rows[k].image, status |-> "pending"]],
     run |-> [h \in Handlers |-> CloudLocal],
     calls |-> [k \in 1..Len(rows) |-> 0],   \* sendPhoto calls made for each row
     chain |-> 0,         \* self-invocations requested and not yet started
     invoked |-> 0, rate |-> 0, stops |-> 0]

\* the row the invocation is working on
CloudRow(l) == l.batch[l.k]

PendingRows(rows) == SelectSeq([k \in 1..Len(rows) |-> k], LAMBDA k : rows[k].status = "pending")

\* .limit(20)
Limit(q, n) == SubSeq(q, 1, Min(Len(q), n))

SetLocal(h, l) == cloud' = [cloud EXCEPT !.run[h] = l]

\* The browser invokes the function (app.js, lines 358-361)
InvokeClient(h) ==
    /\ cloud.run[h].pc = "idle"
    /\ \A g \in Handlers : g < h => cloud.run[g].pc # "idle"
    /\ cloud.invoked < MaxInvocations
    /\ cloud' = [cloud EXCEPT !.run[h] = [CloudLocal EXCEPT !.pc = "start"],
                              !.invoked = @ + 1]
    /\ UNCHANGED serverVars

\* The request the function sent to itself arrives (lines 157-166)
InvokeChained(h) ==
    /\ cloud.run[h].pc = "idle"
    /\ \A g \in Handlers : g < h => cloud.run[g].pc # "idle"
    /\ cloud.chain > 0
    /\ cloud.invoked < MaxInvocations
    /\ cloud' = [cloud EXCEPT !.run[h] = [CloudLocal EXCEPT !.pc = "start"],
                              !.invoked = @ + 1, !.chain = @ - 1]
    /\ UNCHANGED serverVars

\* Lines 31-48: read the job; return if it has ended
ReadJob(h) ==
    /\ cloud.run[h].pc = "start"
    /\ SetLocal(h, [cloud.run[h] EXCEPT !.pc =
                       IF cloud.job.status \in {"stopped", "completed", "failed"} THEN "idle"
                       ELSE IF cloud.job.status = "pending" THEN "setRunning"
                       ELSE "fetchRows"])
    /\ UNCHANGED serverVars

\* Line 47: update({ status: 'running' })
SetRunning(h) ==
    /\ cloud.run[h].pc = "setRunning"
    /\ cloud' = [cloud EXCEPT !.job.status = "running", !.run[h].pc = "fetchRows"]
    /\ UNCHANGED serverVars

\* Lines 51-67: select the pending rows of the job, in row order
FetchRows(h) ==
    /\ cloud.run[h].pc = "fetchRows"
    /\ LET rows == Limit(PendingRows(cloud.rows), BatchLimit)
       IN  SetLocal(h, IF Len(rows) = 0 THEN [cloud.run[h] EXCEPT !.pc = "markCompleted"]
                       ELSE [cloud.run[h] EXCEPT !.pc = "checkStop", !.batch = rows, !.k = 1])
    /\ UNCHANGED serverVars

\* Line 65: update({ status: 'completed', end_time })
MarkCompleted(h) ==
    /\ cloud.run[h].pc = "markCompleted"
    /\ cloud' = [cloud EXCEPT !.job.status = "completed", !.run[h].pc = "idle"]
    /\ UNCHANGED serverVars

\* Lines 76-106: the head of the loop body, down to the fetch
CheckStop(h) ==
    /\ cloud.run[h].pc = "checkStop"
    /\ LET l == cloud.run[h]
       IN  IF cloud.job.status = "stopped"
           THEN SetLocal(h, [l EXCEPT !.pc = "readStats"])
           ELSE IF ~cloud.rows[CloudRow(l)].image
           THEN SetLocal(h, [l EXCEPT !.pc = "markFailed", !.failedCount = @ + 1])
           ELSE cloud' = [cloud EXCEPT !.run[h].pc = "fetch",
                                       !.calls[CloudRow(l)] = @ + 1]
    /\ UNCHANGED serverVars

\* Lines 108-126: the answer of sendPhoto
CloudFetchReturn(h, resp) ==
    /\ cloud.run[h].pc = "fetch"
    /\ IF resp.kind = "ok" THEN SetLocal(h, [cloud.run[h] EXCEPT !.pc = "markSent"])
       ELSE IF resp.kind = "429"
       THEN cloud' = [cloud EXCEPT !.run[h].pc = "markPending", !.rate = @ + 1]
       ELSE SetLocal(h, [cloud.run[h] EXCEPT !.pc = "markFailed", !.failedCount = @ + 1])
    /\ UNCHANGED serverVars

\* Lines 112-113
MarkSent(h) ==
    /\ cloud.run[h].pc = "markSent"
    /\ cloud' = [cloud EXCEPT !.rows[CloudRow(cloud.run[h])].status = "sent",
                              !.run[h].sentCount = @ + 1,
                              !.run[h].pc = "delay"]
    /\ UNCHANGED serverVars

\* Lines 117-121: after the wait the row is left pending
MarkPending(h) ==
    /\ cloud.run[h].pc = "markPending"
    /\ cloud' = [cloud EXCEPT !.rows[CloudRow(cloud.run[h])].status = "pending",
                              !.run[h].pc = "delay"]
    /\ UNCHANGED serverVars

\* Lines 127-130
MarkFailed(h) ==
    /\ cloud.run[h].pc = "markFailed"
    /\ cloud' = [cloud EXCEPT !.rows[CloudRow(cloud.run[h])].status = "failed",
                              !.run[h].pc = "delay"]
    /\ UNCHANGED serverVars

\* Line 134 and the step of the for loop
Delay(h) ==
    /\ cloud.run[h].pc = "delay"
    /\ LET l == cloud.run[h]
       IN  SetLocal(h, IF l.k >= Len(l.batch) THEN [l EXCEPT !.pc = "readStats"]
                       ELSE [l EXCEPT !.pc = "checkStop", !.k = @ + 1])
    /\ UNCHANGED serverVars

\* Line 140
ReadStats(h) ==
    /\ cloud.run[h].pc = "readStats"
    /\ SetLocal(h, [cloud.run[h] EXCEPT !.pc = "writeStats",
                                        !.latest = [sent |-> cloud.job.sent,
                                                    failed |-> cloud.job.failed,
                                                    current |-> cloud.job.current]])
    /\ UNCHANGED serverVars

\* Lines 141-148
WriteStats(h) ==
    /\ cloud.run[h].pc = "writeStats"
    /\ LET l == cloud.run[h]
       IN  cloud' = [cloud EXCEPT
                        !.job.sent = l.latest.sent + l.sentCount,
                        !.job.failed = l.latest.failed + l.failedCount,
                        !.job.current = l.latest.current + l.sentCount + l.failedCount,
                        !.run[h].pc = "countPending"]
    /\ UNCHANGED serverVars

\* Lines 151-174: count the pending rows, invoke self if there are any, return
CountPending(h) ==
    /\ cloud.run[h].pc = "countPending"
    /\ cloud' = [cloud EXCEPT !.run[h].pc = "idle",
                              !.chain = @ + (IF Len(PendingRows(cloud.rows)) > 0 THEN 1 ELSE 0)]
    /\ UNCHANGED serverVars

\* stopSendJob of src/public/app.js (lines 387-405)
StopSendJob ==
    /\ cloud.stops < MaxStops
    /\ cloud' = [cloud EXCEPT !.job.status = "stopped", !.stops = @ + 1]
    /\ UNCHANGED serverVars

-----------------------------------------------------------------------------

\* the server after new JobManager()
ServerInit ==
    /\ configured \in BOOLEAN
    /\ jobs = EmptyMap
    /\ clients = EmptyMap
    /\ rt = EmptyMap
    /\ wrote = [c \in Clients |-> <<>>]
    /\ conn = [c \in Clients |-> Conn("new")]
    /\ reply = Reply(0, "")
    /\ used = {}
    /\ env = EmptyMap
    /\ trace = EmptyMap
    /\ emitted = EmptyMap

Init == ServerInit /\ cloud = CloudDb(<<>>)

\* What the remote may answer, within the bounds of each specification
WatchedAnswer(id, resp) ==
    resp.kind # "ok" => env[id].rate + env[id].errors + env[id].throws < MaxFaults

RetryAnswer(id, resp) ==
    /\ resp.kind = "429" => env[id].rate < MaxRateLimits
    /\ resp.kind = "throw" => env[id].throws < MaxThrows

ValidInputs == {b \in RowInputs : b.array /\ Len(b.rows) > 0}

Next ==
    \/ \E body \in RowInputs, mapping \in MappingInputs : Send(body, mapping) /\ UNCHANGED cloud
    \/ \E id \in JobIds, resp \in Responses :
          id \in DOMAIN env /\ WatchedAnswer(id, resp) /\ FetchReturn(id, resp) /\ UNCHANGED cloud
    \/ \E id \in JobIds : SleepReturn(id) /\ UNCHANGED cloud
    \/ \E id \in AllIds : StopRoute(id) /\ UNCHANGED cloud
    \/ \E id \in AllIds : JobRoute(id) /\ UNCHANGED cloud
    \/ \E id \in AllIds, c \in Clients : EventsRoute(id, c) /\ UNCHANGED cloud
    \/ \E c \in Clients : Close(c) /\ UNCHANGED cloud
    \/ \E id \in JobIds : Evict(id) /\ UNCHANGED cloud

Spec == Init /\ [][Next]_vars

\* The runner against a remote that may fail every attempt; nobody subscribes.
InitRetry == Init /\ configured

NextRetry ==
    \/ \E body \in ValidInputs : Send(body, TargetFields) /\ UNCHANGED cloud
    \/ \E id \in JobIds, resp \in Responses :
          id \in DOMAIN env /\ RetryAnswer(id, resp) /\ FetchReturn(id, resp) /\ UNCHANGED cloud
    \/ \E id \in JobIds : SleepReturn(id) /\ UNCHANGED cloud
    \/ \E id \in JobIds : StopRoute(id) /\ UNCHANGED cloud
    \/ \E id \in JobIds : JobRoute(id) /\ UNCHANGED cloud
    \/ \E id \in JobIds : Evict(id) /\ UNCHANGED cloud

SpecRetry == InitRetry /\ [][NextRetry]_vars

\* Every pending delivery call settles and every timer of sleep() fires; the
\* remote rate-limits a job at most MaxRateLimits times.
Deliveries ==
    \E id \in JobIds, resp \in Responses :
        id \in DOMAIN env /\ RetryAnswer(id, resp) /\ FetchReturn(id, resp) /\ UNCHANGED cloud

Wakes == \E id \in JobIds : SleepReturn(id) /\ UNCHANGED cloud

SpecLive == SpecRetry /\ WF_vars(Deliveries) /\ WF_vars(Wakes)

\* The cloud variant: a stored job with its rows, the function invoked by the
\* browser and by itself, and the browser's stop request.
InitCloud ==
    /\ ServerInit
    /\ configured
    /\ \E body \in ValidInputs : cloud = CloudDb(body.rows)

CloudAnswer(resp) == resp.kind = "429" => cloud.rate < MaxRateLimits

NextCloud ==
    \/ \E h \in Handlers : InvokeClient(h)
    \/ \E h \in Handlers : InvokeChained(h)
    \/ \E h \in Handlers : ReadJob(h)
    \/ \E h \in Handlers : SetRunning(h)
    \/ \E h \in Handlers : FetchRows(h)
    \/ \E h \in Handlers : MarkCompleted(h)
    \/ \E h \in Handlers : CheckStop(h)
    \/ \E h \in Handlers, resp \in CloudResponses :
          CloudAnswer(resp) /\ CloudFetchReturn(h, resp)
    \/ \E h \in Handlers : MarkSent(h)
    \/ \E h \in Handlers : MarkPending(h)
    \/ \E h \in Handlers : MarkFailed(h)
    \/ \E h \in Handlers : Delay(h)
    \/ \E h \in Handlers : ReadStats(h)
    \/ \E h \in Handlers : WriteStats(h)
    \/ \E h \in Handlers : CountPending(h)
    \/ StopSendJob

SpecCloud == InitCloud /\ [][NextCloud]_vars

\* The progress of longer submissions: every row has an image and the remote
\* accepts every message, while handles attach.
LongInputs ==
    {[array |-> TRUE, rows |-> [k \in 1..n |-> [image |-> TRUE]]] : n \in 1..MaxTotal}

NextProgress ==
    \/ \E body \in LongInputs : Send(body, TargetFields) /\ UNCHANGED cloud
    \/ \E id \in JobIds : id \in DOMAIN env /\ FetchReturn(id, RespOk) /\ UNCHANGED cloud
    \/ \E id \in JobIds : SleepReturn(id) /\ UNCHANGED cloud
    \/ \E id \in JobIds, c \in Clients : EventsRoute(id, c) /\ UNCHANGED cloud

SpecProgress == InitRetry /\ [][NextProgress]_vars

\* The broadcaster against handles whose writes may start to throw; the
\* remote accepts every message.
NextEmit ==
    \/ \E body \in ValidInputs : Send(body, TargetFields) /\ UNCHANGED cloud
    \/ \E id \in JobIds : id \in DOMAIN env /\ FetchReturn(id, RespOk) /\ UNCHANGED cloud
    \/ \E id \in JobIds : SleepReturn(id) /\ UNCHANGED cloud
    \/ \E id \in JobIds : StopRoute(id) /\ UNCHANGED cloud
    \/ \E id \in JobIds, c \in Clients : EventsRoute(id, c) /\ UNCHANGED cloud
    \/ \E c \in Clients : Break(c) /\ UNCHANGED cloud
    \/ \E c \in Clients : Close(c) /\ UNCHANGED cloud
    \/ \E id \in JobIds : Evict(id) /\ UNCHANGED cloud

SpecEmit == InitRetry /\ [][NextEmit]_vars

-----------------------------------------------------------------------------
(* Reading the history *)

Terminal == {"completed", "stopped", "failed"}

IsRowStep(e, r) ==
    e.t \in {"row", "call", "resp", "sleep", "sent", "failed"} /\ e.row = r

\* The runner's steps on row r of job id, in order
RowSteps(id, r) == SelectSeq(trace[id], LAMBDA e : IsRowStep(e, r))

Of(steps, t) == SelectSeq(steps, LAMBDA e : e.t = t)

Kinds(steps) == [k \in 1..Len(steps) |-> steps[k].t]

Stopped(id) == \E p \in 1..Len(trace[id]) : trace[id][p].t = "stop"

ErrorsOf(id, r) == SelectSeq(jobs[id].errors, LAMBDA e : e.row = r)

\* The message the catch block sees for a failed delivery
MessageOf(resp) ==
    IF resp.kind = "error" /\ resp.description = "" THEN "Unknown Telegram error"
    ELSE resp.description

-----------------------------------------------------------------------------
(* C1: in every reachable state of every job, 0 <= sent + failed <= current *)
(* <= total, and no step decreases current; stop requests and status        *)
(* queries interleave with pending delivery calls and waits.                *)

C1_CountersOrdered ==
    \A id \in DOMAIN jobs :
        /\ 0 <= jobs[id].sent + jobs[id].failed
        /\ jobs[id].sent + jobs[id].failed <= jobs[id].current
        /\ jobs[id].current <= jobs[id].total

C1_CurrentMonotone ==
    \A id \in DOMAIN jobs :
        id \in DOMAIN jobs' => jobs'[id].current >= jobs[id].current

C1_Counters == [](C1_CountersOrdered) /\ [][C1_CurrentMonotone]_vars

\* A delivery call is pending for the second row after the first one ran out
\* of attempts, and a stop request has come in meanwhile.
C1_Witness ==
    \E id \in DOMAIN jobs :
        /\ rt[id].pc = "fetch"
        /\ jobs[id].isStopped
        /\ jobs[id].failed = 1
        /\ jobs[id].current = 2
        /\ Len(Of(RowSteps(id, 1), "resp")) = maxAttempts

-----------------------------------------------------------------------------
(* C2: after a stop request made while the job is running, no row after the *)
(* one being processed at that moment is counted as sent or failed, and the *)
(* job never gets status completed: it ends stopped.                        *)

C2_StopHalts ==
    \A id \in DOMAIN trace :
        \A p \in 1..Len(trace[id]) :
            (trace[id][p].t = "stop" /\ trace[id][p].pc # "finished") =>
                /\ \A q \in p + 1..Len(trace[id]) :
                       trace[id][q].t \in {"sent", "failed"} =>
                           trace[id][q].row <= trace[id][p].row
                /\ id \in DOMAIN jobs => jobs[id].status # "completed"
                /\ (id \in DOMAIN rt /\ rt[id].pc = "finished") =>
                       jobs[id].status = "stopped"

\* The stop came while the first of two rows was in flight; that row was
\* still counted, the second never started, and the job is stopped.
C2_Witness ==
    \E id \in DOMAIN jobs :
        /\ jobs[id].total = 2
        /\ jobs[id].status = "stopped"
        /\ jobs[id].sent = 1
        /\ rt[id].pc = "finished"
        /\ \E p \in 1..Len(trace[id]) :
              /\ trace[id][p].t = "stop"
              /\ trace[id][p].pc = "fetch"
              /\ trace[id][p].row = 1
              /\ \E q \in p + 1..Len(trace[id]) : trace[id][q].t = "sent"

-----------------------------------------------------------------------------
(* C3: a job's status moves only forward along pending -> running ->        *)
(* {completed, stopped, failed}; once it is completed, stopped or failed no *)
(* step of the runner, stop request, status query or subscription changes   *)
(* it for as long as the job is in the registry.                            *)

C3_StatusStep ==
    \A id \in DOMAIN jobs :
        id \in DOMAIN jobs' =>
            /\ jobs[id].status \in Terminal => jobs'[id].status = jobs[id].status
            /\ jobs[id].status = "running" =>
                   jobs'[id].status \in {"running"} \cup Terminal
            /\ jobs[id].status = "pending" =>
                   jobs'[id].status \in {"pending", "running"}

C3_StatusMonotone == [][C3_StatusStep]_vars

\* A completed job that has since been asked to stop and been subscribed to
\* (the handle's replay ends with the done event): it is still completed.
C3_Witness ==
    \E id \in DOMAIN jobs, c \in Clients :
        /\ jobs[id].status = "completed"
        /\ jobs[id].isStopped
        /\ conn[c].state = "open"
        /\ conn[c].job = id
        /\ wrote[c][conn[c].pre].event = "done"

-----------------------------------------------------------------------------
(* C4: while the remote fails every delivery of a row (no 429) and nobody   *)
(* asks to stop, the runner makes exactly 5 attempts for the row, sleeps    *)
(* between consecutive attempts for strictly increasing backoff times, then *)
(* counts the row as failed once and records one error entry carrying the   *)
(* message of the last attempt.                                             *)

\* row, (call, resp, sleep) x 4, call, resp, failed
ExhaustedPattern ==
    [k \in 1..(3 * maxAttempts + 1) |->
        IF k = 1 THEN "row"
        ELSE IF k = 3 * maxAttempts + 1 THEN "failed"
        ELSE IF (k - 2) % 3 = 0 THEN "call"
        ELSE IF (k - 2) % 3 = 1 THEN "resp"
        ELSE "sleep"]

AllFailures(resps) ==
    /\ Len(resps) > 0
    /\ \A k \in 1..Len(resps) : resps[k].resp.kind \in {"error", "throw"}

C4_ExhaustsFiveAttempts ==
    \A id \in DOMAIN trace, r \in 1..MaxRows :
        LET S == RowSteps(id, r)
            resps == Of(S, "resp")
            sleeps == Of(S, "sleep")
        IN  (~Stopped(id) /\ AllFailures(resps)) =>
                /\ Len(Of(S, "call")) <= maxAttempts
                /\ Len(resps) < maxAttempts =>
                       /\ Of(S, "failed") = <<>>
                       /\ id \in DOMAIN jobs => ErrorsOf(id, r) = <<>>
                /\ Len(resps) = maxAttempts =>
                       /\ Kinds(S) = ExhaustedPattern
                       /\ \A k \in 1..Len(sleeps) : sleeps[k].wake = "backoff"
                       /\ \A k \in 1..Len(sleeps) - 1 : sleeps[k].ms < sleeps[k + 1].ms
                       /\ id \in DOMAIN jobs =>
                              /\ ErrorsOf(id, r) =
                                    <<[row |-> r, error |-> MessageOf(resps[maxAttempts].resp)]>>
                              /\ jobs[id].failed = Len(Of(trace[id], "failed"))

\* Four Telegram errors and then a rejected fetch: the entry carries the
\* message of the fifth attempt, which differs from the first four.
C4_Witness ==
    \E id \in DOMAIN jobs :
        LET resps == Of(RowSteps(id, 1), "resp")
        IN  /\ ~Stopped(id)
            /\ AllFailures(resps)
            /\ Len(resps) = maxAttempts
            /\ resps[1].resp.kind = "error"
            /\ resps[maxAttempts].resp.kind = "throw"
            /\ jobs[id].errors = <<[row |-> 1, error |-> "network"]>>
            /\ jobs[id].failed = 1

-----------------------------------------------------------------------------
(* C5: a row that the remote answers once with 429 and retry_after 5 and    *)
(* then with ok is counted as sent, not failed, and a ratelimit event       *)
(* carrying 5 is emitted, and written to the handles attached by then,      *)
(* before the log event of the row's success.                               *)

RateLimitEvent(n) == Event("ratelimit", [retryAfter |-> n])
RowSentEvent(r) == Event("log", [kind |-> "rowSent", row |-> r])

\* x occurs before y in seq, from position `from` on
Before(seq, from, x, y) ==
    \E p, q \in from..Len(seq) : p < q /\ seq[p] = x /\ seq[q] = y

RateLimitedOnce(id, r) ==
    LET resps == Of(RowSteps(id, r), "resp")
    IN  /\ Len(resps) = 2
        /\ resps[1].resp = RespRate(5)
        /\ resps[2].resp.kind = "ok"

\* the handle was attached to job id before the job's n-th emitted event
AttachedBefore(c, id, n) ==
    conn[c].state = "open" /\ conn[c].job = id /\ conn[c].at < n

\* p and q are the places, among the job's emitted events, of the ratelimit
\* event of row r and of the log event of its success: rows are handled one
\* after the other and each ends with one progress event
RowRateLimit(id, r, p, q) ==
    /\ p < q
    /\ emitted[id][p] = RateLimitEvent(5)
    /\ emitted[id][q] = RowSentEvent(r)
    /\ \A k \in (p + 1)..(q - 1) : emitted[id][k].event # "progress"

\* the place in wrote[c] of the job's n-th emitted event
At(c, n) == conn[c].pre + n - conn[c].at

C5_RateLimitThenSent ==
    \A id \in DOMAIN trace, r \in 1..MaxRows :
        RateLimitedOnce(id, r) =>
            /\ Len(Of(RowSteps(id, r), "sent")) = 1
            /\ Of(RowSteps(id, r), "failed") = <<>>
            /\ id \in DOMAIN jobs => ErrorsOf(id, r) = <<>>
            /\ \E p, q \in 1..Len(emitted[id]) :
                   /\ RowRateLimit(id, r, p, q)
                   /\ \A c \in Clients :
                          AttachedBefore(c, id, p) =>
                              /\ At(c, q) <= Len(wrote[c])
                              /\ wrote[c][At(c, p)] = RateLimitEvent(5)
                              /\ wrote[c][At(c, q)] = RowSentEvent(r)

\* A handle attached before the 429 has been written the ratelimit event
\* and then the success of row 1.
C5_Witness ==
    \E id \in DOMAIN jobs, c \in Clients :
        /\ RateLimitedOnce(id, 1)
        /\ jobs[id].sent = 1
        /\ jobs[id].failed = 0
        /\ \E p, q \in 1..Len(emitted[id]) :
              RowRateLimit(id, 1, p, q) /\ AttachedBefore(c, id, p)
        /\ Before(wrote[c], conn[c].pre + 1, RateLimitEvent(5), RowSentEvent(1))

-----------------------------------------------------------------------------
(* C6: a row whose mapped image field is absent is counted as failed and    *)
(* gets an error entry without any delivery call, the runner goes on to the *)
(* next row, and a job that nobody stopped still ends completed.            *)

NoImage(id, r) == ~("image" \in rt[id].mapping /\ rt[id].rows[r].image)

C6_MissingImage ==
    \A id \in DOMAIN rt :
        /\ \A r \in 1..Len(rt[id].rows) :
              (NoImage(id, r) /\ RowSteps(id, r) # <<>>) =>
                  /\ Kinds(RowSteps(id, r)) = <<"row", "failed">>
                  /\ ErrorsOf(id, r) = <<[row |-> r, error |-> "No image URL"]>>
                  /\ jobs[id].failed = Len(Of(trace[id], "failed"))
                  /\ r < Len(rt[id].rows) => RowSteps(id, r + 1) # <<>>
        /\ (rt[id].pc = "finished" /\ ~Stopped(id)) => jobs[id].status = "completed"

\* Row 1 has no image and row 2 was delivered: one failure, no call for
\* row 1, and the job is completed.
C6_Witness ==
    \E id \in DOMAIN rt :
        /\ Len(rt[id].rows) = 2
        /\ rt[id].mapping = TargetFields
        /\ NoImage(id, 1)
        /\ Of(RowSteps(id, 1), "call") = <<>>
        /\ jobs[id].errors = <<[row |-> 1, error |-> "No image URL"]>>
        /\ jobs[id].failed = 1
        /\ jobs[id].sent = 1
        /\ jobs[id].status = "completed"

-----------------------------------------------------------------------------
(* C7: a submission whose rows are missing or empty is answered 400 and     *)
(* creates no job record and starts no runner; no job with total = 0 is     *)
(* ever in the registry.                                                    *)

EmptyBodies == {body \in RowInputs : ~body.array \/ Len(body.rows) = 0}

C7_NoEmptyJob == \A id \in DOMAIN jobs : jobs[id].total >= 1

C7_RejectStep ==
    \A body \in EmptyBodies, mapping \in MappingInputs :
        Send(body, mapping) =>
            /\ reply' = Reply(400, "No rows provided")
            /\ UNCHANGED <<jobs, rt, clients, used, wrote, trace, emitted>>

C7_EmptyRejected == [](C7_NoEmptyJob) /\ [][C7_RejectStep]_vars

\* The empty submission was answered 400 and the registry is as it was
C7_Witness ==
    /\ reply = Reply(400, "No rows provided")
    /\ configured
    /\ jobs = EmptyMap
    /\ rt = EmptyMap
    /\ used = {}

-----------------------------------------------------------------------------
(* C8: a submission whose mapping lacks one of title, description, view,    *)
(* download, image is rejected and creates no job.                          *)

C8_RejectStep ==
    \A body \in RowInputs, mapping \in MappingInputs \ {TargetFields} :
        Send(body, mapping) =>
            /\ reply'.status # 200
            /\ UNCHANGED <<jobs, rt>>

C8_IncompleteMappingRejected == [][C8_RejectStep]_vars

-----------------------------------------------------------------------------
(* C9: a status query, a stop request and a subscribe request for an        *)
(* identifier that is not in the registry are each answered 404 and change  *)
(* neither the registry, nor a job record, nor a subscriber set.            *)

C9_UnknownStep ==
    \A id \in AllIds \ DOMAIN jobs :
        (JobRoute(id) \/ StopRoute(id) \/ \E c \in Clients : EventsRoute(id, c)) =>
            /\ reply' = Reply(404, "Job not found")
            /\ UNCHANGED <<jobs, clients, rt, wrote, conn>>

C9_UnknownIdNotFound == [][C9_UnknownStep]_vars

\* The job has been evicted while a handle was still open, and a request
\* naming it has been answered 404.
C9_Witness ==
    /\ reply = Reply(404, "Job not found")
    /\ used = JobIds
    /\ jobs = EmptyMap
    /\ \E c \in Clients : conn[c].state = "open" /\ conn[c].job \in JobIds

-----------------------------------------------------------------------------
(* C10: two handles attached to the same job, at different times, are       *)
(* written the same events in the same order from the moment the later one  *)
(* attached: exactly the events emitted since then, in emission order.      *)

\* what handle c was written after the replay
Live(c) == SubSeq(wrote[c], conn[c].pre + 1, Len(wrote[c]))

EmittedSince(id, n) == SubSeq(emitted[id], n + 1, Len(emitted[id]))

Attached(c, id) == conn[c].state = "open" /\ conn[c].job = id

C10_SameEventsSameOrder ==
    \A id \in DOMAIN emitted, c \in Clients, d \in Clients :
        (Attached(c, id) /\ Attached(d, id) /\ conn[c].at <= conn[d].at) =>
            /\ Live(d) = EmittedSince(id, conn[d].at)
            /\ SubSeq(Live(c), conn[d].at - conn[c].at + 1, Len(Live(c))) = Live(d)

\* Two handles attached at different points of a job that is still running,
\* and at least two events were emitted after the later one attached.
C10_Witness ==
    \E id \in DOMAIN jobs, c \in Clients, d \in Clients :
        /\ Attached(c, id)
        /\ Attached(d, id)
        /\ conn[c].at < conn[d].at
        /\ Len(Live(d)) >= 2
        /\ jobs[id].status = "running"

-----------------------------------------------------------------------------
(* C11: what a handle attached to a job has been written begins with one    *)
(* connected event carrying the job's status at that moment, then the log   *)
(* entries made until then in log order, then one progress snapshot, then,  *)
(* if the job had already ended (completed or stopped), its done event; the *)
(* events emitted afterwards follow, and the handle is in the job's set.    *)

\* the job's events emitted before handle c attached
History(c) == SubSeq(emitted[conn[c].job], 1, conn[c].at)

LogsOf(h) == SelectSeq(h, LAMBDA e : e.event = "log")

DonesOf(h) == SelectSeq(h, LAMBDA e : e.event = "done")

FinishOf(id) == SelectSeq(trace[id], LAMBDA e : e.t = "finish")

C11_ReplayThenLive ==
    \A c \in Clients :
        conn[c].state = "open" =>
            LET id == conn[c].job
                h == History(c)
                n == Len(LogsOf(h))
                ended == DonesOf(h) # <<>>
                k == n + 2 + (IF ended THEN 1 ELSE 0)
                w == wrote[c]
            IN  /\ Len(w) >= k
                /\ w[1] = Event("connected",
                                [jobId |-> id,
                                 status |-> IF ended THEN FinishOf(id)[1].status
                                            ELSE "running"])
                /\ [j \in 1..n |-> w[j + 1]] = LogsOf(h)
                /\ w[n + 2].event = "progress"
                /\ id \in DOMAIN rt => w[n + 2].data.total = Len(rt[id].rows)
                /\ ended =>
                      /\ FinishOf(id)[1].status \in {"completed", "stopped"}
                      /\ w[n + 3].event = "done"
                      /\ \A f \in {"sent", "failed", "total"} :
                             w[n + 3].data[f] = DonesOf(h)[1].data[f]
                      /\ \A f \in {"sent", "failed", "total"} :
                             w[n + 2].data[f] = DonesOf(h)[1].data[f]
                /\ SubSeq(w, k + 1, Len(w)) = EmittedSince(id, conn[c].at)
                /\ id \in DOMAIN jobs => c \in Range(Handles(id))

\* A handle attached to a job that had ended by a stop was replayed its log,
\* its progress and its done event, and has been written a later event.
C11_Witness ==
    \E c \in Clients :
        /\ conn[c].state = "open"
        /\ DonesOf(History(c)) # <<>>
        /\ FinishOf(conn[c].job)[1].status = "stopped"
        /\ Len(LogsOf(History(c))) >= 3
        /\ Len(wrote[c]) > Len(LogsOf(History(c))) + 3

-----------------------------------------------------------------------------
(* C12: a stop request for a job whose stop flag is already set leaves the  *)
(* job record (flag, status, counters, log), the events emitted for the job *)
(* and what every handle has been written as they were.                     *)

C12_RepeatedStopStep ==
    \A id \in DOMAIN jobs :
        (jobs[id].isStopped /\ StopRoute(id)) =>
            /\ jobs'[id] = jobs[id]
            /\ emitted'[id] = emitted[id]
            /\ wrote' = wrote

C12_StopIdempotent == [][C12_RepeatedStopStep]_vars

-----------------------------------------------------------------------------
(* C13: once a write to a handle has thrown during emit, the handle is no   *)
(* longer in the job's set, so nothing more is written to it, while the     *)
(* other handles of the job are still written the event.                    *)

ThrownWrites(c) == SelectSeq(wrote[c], LAMBDA e : "threw" \in DOMAIN e)

C13_FailedWriteDetaches ==
    \A c \in Clients :
        ThrownWrites(c) # <<>> =>
            /\ \A id \in DOMAIN clients : c \notin Range(clients[id])
            /\ Len(ThrownWrites(c)) = 1
            /\ \A d \in Clients :
                   Attached(d, conn[c].job) => Live(d) = EmittedSince(conn[c].job, conn[d].at)

-----------------------------------------------------------------------------
(* C14: a job record leaves the registry only together with its set of      *)
(* handles, only when the job has ended (completed or stopped) and its      *)
(* cleanup timer, armed at the end of the run, fires; a running job is      *)
(* never removed, and every handle in the set at that moment has been       *)
(* written the job's done event.                                            *)

HasDone(c) == \E k \in 1..Len(wrote[c]) : wrote[c][k].event = "done"

C14_SetsWithJobs == DOMAIN clients \subseteq DOMAIN jobs

C14_EvictStep ==
    \A id \in DOMAIN jobs :
        id \notin DOMAIN jobs' =>
            /\ id \notin DOMAIN clients'
            /\ jobs[id].status \in {"completed", "stopped"}
            /\ jobs[id].endTime = "set"
            /\ rt[id].pc = "finished"
            /\ \A c \in Range(Handles(id)) : HasDone(c)

C14_EvictedAfterEnd == [](C14_SetsWithJobs) /\ [][C14_EvictStep]_vars

\* The job has been evicted while a handle that attached during the run and
\* was written its done event is still open.
C14_Witness ==
    /\ used = JobIds
    /\ jobs = EmptyMap
    /\ clients = EmptyMap
    /\ \E c \in Clients :
          /\ conn[c].state = "open"
          /\ DonesOf(History(c)) = <<>>
          /\ HasDone(c)

-----------------------------------------------------------------------------
(* C15: when the runner has gone through every row and no stop request came *)
(* before the end, the job is completed in the turn that resolves the last  *)
(* row, its end time has been set once, and exactly one done event has been *)
(* emitted, carrying the final sent, failed and total.                      *)

Place(id, t) == CHOOSE p \in 1..Len(trace[id]) : trace[id][p].t = t

\* no stop request reached the job before its run ended
NoStopBeforeEnd(id) ==
    \A p \in 1..Len(trace[id]) :
        trace[id][p].t = "stop" => (FinishOf(id) # <<>> /\ Place(id, "finish") < p)

C15_CompletedOnce ==
    \A id \in DOMAIN jobs :
        (NoStopBeforeEnd(id) /\ jobs[id].sent + jobs[id].failed = jobs[id].total) =>
            LET dones == DonesOf(emitted[id])
            IN  /\ jobs[id].status = "completed"
                /\ rt[id].pc = "finished"
                /\ jobs[id].endTime = "set"
                /\ jobs[id].ends = 1
                /\ Len(FinishOf(id)) = 1
                /\ Len(dones) = 1
                /\ dones[1].data.sent = jobs[id].sent
                /\ dones[1].data.failed = jobs[id].failed
                /\ dones[1].data.total = jobs[id].total
                /\ jobs[id].current = jobs[id].total

C15_RunningUntilResolved ==
    \A id \in DOMAIN jobs :
        (NoStopBeforeEnd(id) /\ jobs[id].sent + jobs[id].failed < jobs[id].total) =>
            /\ jobs[id].status = "running"
            /\ DonesOf(emitted[id]) = <<>>

C15_CompletesWithDone == C15_CompletedOnce /\ C15_RunningUntilResolved

\* Two rows, one sent and one failed after its attempts, and the job completed.
C15_Witness ==
    \E id \in DOMAIN jobs :
        /\ NoStopBeforeEnd(id)
        /\ jobs[id].status = "completed"
        /\ jobs[id].sent = 1
        /\ jobs[id].failed = 1
        /\ \E p \in 1..Len(trace[id]) : trace[id][p].t = "resp" /\ trace[id][p].resp.kind = "error"

-----------------------------------------------------------------------------
(* C16: for a job that a stop request reached before its run ended, the     *)
(* stopped event is emitted with the status stopped and the end time set,   *)
(* and no progress, log or done event of the job is emitted after it.       *)

StoppedEvents(id) == {p \in 1..Len(emitted[id]) : emitted[id][p].event = "stopped"}

C16_StoppedIsTerminal ==
    \A id \in DOMAIN jobs :
        (~NoStopBeforeEnd(id) /\ StoppedEvents(id) # {}) =>
            /\ jobs[id].status = "stopped"
            /\ jobs[id].endTime = "set"
            /\ \A p \in StoppedEvents(id), q \in 1..Len(emitted[id]) :
                   q > p => emitted[id][q].event \notin {"progress", "log", "done"}

-----------------------------------------------------------------------------
(* C17: when every pending delivery call settles, every wait ends and the   *)
(* remote rate-limits the job finitely often, a submitted job that no stop  *)
(* request reaches is eventually completed, with every row counted as sent  *)
(* or failed, however many of its rows fail.                                *)

Completed(id) ==
    /\ FinishOf(id) # <<>>
    /\ FinishOf(id)[1].status = "completed"
    /\ LET done == DonesOf(emitted[id])[1].data
       IN  done.sent + done.failed = done.total

C17_EventuallyCompleted ==
    \A id \in JobIds :
        [](id \in DOMAIN jobs => <>(id \in DOMAIN trace /\ (Stopped(id) \/ Completed(id))))

\* A job whose rows both failed, one for its missing image and one after its
\* attempts, has completed without any stop request.
C17_Witness ==
    \E id \in DOMAIN jobs :
        /\ Completed(id)
        /\ ~Stopped(id)
        /\ jobs[id].failed = 2
        /\ \E p \in 1..Len(trace[id]) : trace[id][p].t = "call"

-----------------------------------------------------------------------------
(* C18: rows are handled in input order, by processJob and by the           *)
(* process-job function alike: a delivery call for a row is made only when  *)
(* every earlier row of the input has been resolved as sent or failed, also *)
(* when an earlier row was answered with a rate limit.                      *)

Resolved(id, r, p) ==
    \E q \in 1..(p - 1) :
        trace[id][q].t \in {"sent", "failed"} /\ trace[id][q].row = r

C18_RunnerInOrder ==
    \A id \in DOMAIN trace :
        \A p \in 1..Len(trace[id]) :
            trace[id][p].t = "call" =>
                \A r \in 1..(trace[id][p].row - 1) : Resolved(id, r, p)

C18_FunctionCallStep ==
    \A h \in Handlers :
        (cloud.run[h].pc # "fetch" /\ cloud'.run[h].pc = "fetch") =>
            \A r \in 1..(CloudRow(cloud'.run[h]) - 1) :
                cloud.rows[r].status \in {"sent", "failed"}

C18_StrictInputOrder == [](C18_RunnerInOrder) /\ [][C18_FunctionCallStep]_vars

-----------------------------------------------------------------------------
(* C19: a 429 answer does not use up an attempt: a row that was attempted   *)
(* is counted as failed exactly when 5 of its delivery calls have failed    *)
(* otherwise, however many 429 answers came in between, and a row whose     *)
(* calls end with an ok answer is counted as sent.                          *)

KindIn(resps, kinds) == SelectSeq(resps, LAMBDA e : e.resp.kind \in kinds)

C19_RateLimitNotCounted ==
    \A id \in DOMAIN trace, r \in 1..MaxRows :
        LET steps == RowSteps(id, r)
            resps == Of(steps, "resp")
            fails == KindIn(resps, {"error", "throw"})
            oks == KindIn(resps, {"ok"})
        IN  Of(steps, "call") # <<>> =>
                /\ Len(fails) <= maxAttempts
                /\ Of(steps, "failed") # <<>> <=> Len(fails) = maxAttempts
                /\ Of(steps, "sent") # <<>> <=> oks # <<>>
                /\ oks # <<>> => (Len(oks) = 1 /\ Of(steps, "failed") = <<>>)
                /\ Len(Of(steps, "failed")) <= 1

\* Row 1 failed after six delivery calls: five failures and a 429 that came
\* after the fourth of them.
C19_Witness ==
    \E id \in DOMAIN jobs :
        LET resps == Of(RowSteps(id, 1), "resp")
        IN  /\ Len(resps) = maxAttempts + 1
            /\ resps[maxAttempts].resp.kind = "429"
            /\ Len(KindIn(resps, {"error", "throw"})) = maxAttempts
            /\ jobs[id].failed = 1
            /\ ErrorsOf(id, 1) # <<>>

-----------------------------------------------------------------------------
(* C20: before the first delivery call of every row but the first, the      *)
(* runner has paused for the inter-message delay after the row before it,   *)
(* whether that row was sent or failed after its delivery attempts; no such *)
(* pause follows the last row.                                              *)

DelayAfter(r) == [t |-> "sleep", row |-> r, ms |-> MessageDelay, wake |-> "delay"]

FirstCall(id, p) ==
    /\ trace[id][p].t = "call"
    /\ \A q \in 1..(p - 1) : ~(trace[id][q].t = "call" /\ trace[id][q].row = trace[id][p].row)

\* a delivery call was made for row r
Attempted(id, r) == \E q \in 1..Len(trace[id]) : trace[id][q].t = "call" /\ trace[id][q].row = r

C20_PauseBetweenRows ==
    \A id \in DOMAIN trace :
        \A p \in 1..Len(trace[id]) :
            /\ (FirstCall(id, p) /\ trace[id][p].row > 1 /\ Attempted(id, trace[id][p].row - 1)) =>
                   \E q \in 1..(p - 1) : trace[id][q] = DelayAfter(trace[id][p].row - 1)
            /\ (id \in DOMAIN jobs /\ trace[id][p].t = "sleep" /\ trace[id][p].wake = "delay") =>
                   trace[id][p].row < jobs[id].total

-----------------------------------------------------------------------------
(* C21: in every state a status query or an attach can observe, current     *)
(* counts only rows that have been resolved: it does not exceed sent +      *)
(* failed, so it includes neither a row whose delivery is in progress nor a *)
(* row abandoned because of a stop.                                         *)

C21_CurrentCountsResolved ==
    \A id \in DOMAIN jobs : jobs[id].current <= jobs[id].sent + jobs[id].failed

-----------------------------------------------------------------------------
(* C22: a stop request changes nothing of a job but its stop flag, and a    *)
(* status query or an attach changes nothing of it; counters, status and    *)
(* log are changed by the steps of the job's runner only.                   *)

C22_FrameStep ==
    \A id \in DOMAIN jobs :
        /\ StopRoute(id) => jobs'[id] = [jobs[id] EXCEPT !.isStopped = TRUE]
        /\ JobRoute(id) => jobs' = jobs
        /\ (\E c \in Clients : EventsRoute(id, c)) => jobs' = jobs

C22_SingleWriter == [][C22_FrameStep]_vars

-----------------------------------------------------------------------------
(* C23: once a stop request has set the flag, the runner makes no further   *)
(* delivery call, neither a retry after a backoff or rate-limit wait nor    *)
(* the first call of a later row after the delay between rows; at most the  *)
(* one call that was pending when the request came is answered.             *)

FirstStop(id) == CHOOSE p \in 1..Len(trace[id]) :
                    /\ trace[id][p].t = "stop"
                    /\ \A q \in 1..(p - 1) : trace[id][q].t # "stop"

After(id, p, t) == {q \in (p + 1)..Len(trace[id]) : trace[id][q].t = t}

C23_NoCallAfterStop ==
    \A id \in DOMAIN trace :
        Stopped(id) =>
            LET p == FirstStop(id)
            IN  /\ After(id, p, "call") = {}
                /\ Cardinality(After(id, p, "resp")) <= 1
                /\ After(id, p, "resp") # {} => trace[id][p].pc = "fetch"
                /\ After(id, p, "sleep") # {} => trace[id][p].pc = "fetch"

\* The stop request came during the backoff wait of row 1, the wait ended
\* and the job ended as stopped without another call.
C23_Witness ==
    \E id \in DOMAIN jobs :
        /\ Stopped(id)
        /\ LET p == FirstStop(id)
           IN  /\ p > 1
               /\ trace[id][p - 1].t = "sleep"
               /\ trace[id][p - 1].wake = "backoff"
        /\ jobs[id].status = "stopped"
        /\ jobs[id].total = 2

-----------------------------------------------------------------------------
(* C24: the percent of every progress event, emitted or written as the      *)
(* snapshot of an attach, is the integer nearest to current / total * 100   *)
(* (a half rounds up) when total > 0 and 0 otherwise, and lies between 0    *)
(* and 100.                                                                 *)

\* p is current / total * 100 rounded: p - 1/2 <= 100 * current / total < p + 1/2
Nearest(p, current, total) ==
    /\ 2 * total * p - total <= 200 * current
    /\ 200 * current < 2 * total * p + total

PercentOk(d) ==
    /\ d.percent \in 0..100
    /\ IF d.total > 0 THEN Nearest(d.percent, d.current, d.total) ELSE d.percent = 0

ProgressIn(seq) == {seq[k].data : k \in {j \in 1..Len(seq) : seq[j].event = "progress"}}

C24_PercentRounded ==
    /\ \A id \in DOMAIN emitted : \A d \in ProgressIn(emitted[id]) : PercentOk(d)
    /\ \A c \in Clients : \A d \in ProgressIn(wrote[c]) : PercentOk(d)
    /\ \A id \in DOMAIN jobs : PercentOk(ProgressData(jobs[id]))

\* A handle attached while row 1 of 8 was being delivered was written 13
\* percent (12.5 rounded up), and 67 percent was emitted for a job of 3 or 6.
C24_Witness ==
    /\ \E c \in Clients :
          /\ conn[c].state = "open"
          /\ wrote[c][conn[c].pre].event = "progress"
          /\ wrote[c][conn[c].pre].data.total = 8
          /\ wrote[c][conn[c].pre].data.current = 1
          /\ wrote[c][conn[c].pre].data.percent = 13
    /\ \E id \in DOMAIN emitted :
          \E d \in ProgressIn(emitted[id]) : d.total = 8 /\ d.current = 3 /\ d.percent = 38

-----------------------------------------------------------------------------
(* C25: in the cloud variant, when the job was never stopped, every row is  *)
(* sent or failed, and no invocation of process-job is in progress or       *)
(* requested, the stored status of the job is completed.                    *)

CloudQuiet ==
    /\ cloud.invoked > 0
    /\ cloud.chain = 0
    /\ \A h \in Handlers : cloud.run[h].pc = "idle"

CloudResolved == \A k \in DOMAIN cloud.rows : cloud.rows[k].status \in {"sent", "failed"}

C25_ExhaustedCompleted ==
    (CloudQuiet /\ CloudResolved /\ cloud.stops = 0) => cloud.job.status = "completed"

-----------------------------------------------------------------------------
(* C26: in the cloud variant, no step changes a stored status that is       *)
(* completed, stopped or failed.                                            *)

CloudTerminal == {"completed", "stopped", "failed"}

C26_StoredTerminalKept ==
    [][cloud.job.status \in CloudTerminal => cloud'.job.status = cloud.job.status]_vars

-----------------------------------------------------------------------------
(* C27: in the cloud variant the stored counters satisfy                    *)
(* sent + failed <= current <= total in every state, overlapping            *)
(* invocations included.                                                    *)

\* a row is given to sendPhoto once, and once more for each rate-limited answer
C27_CloudCounters ==
    /\ cloud.job.sent + cloud.job.failed <= cloud.job.current
    /\ cloud.job.current <= cloud.job.total
    /\ \A k \in DOMAIN cloud.calls : cloud.calls[k] <= 1 + cloud.rate

-----------------------------------------------------------------------------
(* C28: a job with status completed has every row resolved                  *)
(* (sent + failed = current = total), and a job whose run has ended with a  *)
(* row neither sent nor failed has status stopped.                          *)

C28_CompletedMeansResolved ==
    \A id \in DOMAIN jobs :
        /\ jobs[id].status = "completed" =>
              /\ jobs[id].sent + jobs[id].failed = jobs[id].total
              /\ jobs[id].current = jobs[id].total
        /\ (rt[id].pc = "finished" /\ jobs[id].sent + jobs[id].failed < jobs[id].total) =>
              jobs[id].status = "stopped"

\* The last of two rows was abandoned when a stop request came during the
\* wait before its retry: the run ended with one row resolved.
C28_Witness ==
    \E id \in DOMAIN jobs :
        /\ rt[id].pc = "finished"
        /\ jobs[id].status = "stopped"
        /\ jobs[id].total = 2
        /\ jobs[id].current = 2
        /\ jobs[id].sent + jobs[id].failed = 1
        /\ \E p \in 2..Len(trace[id]) :
              /\ trace[id][p].t = "stop"
              /\ trace[id][p - 1].t = "sleep"
              /\ trace[id][p - 1].row = 2
              /\ trace[id][p - 1].wake = "backoff"

-----------------------------------------------------------------------------
(* C29: the error list of a job has as many entries as its failed counter   *)
(* says, and the row numbers of the entries strictly increase along the     *)
(* list.                                                                    *)

C29_ErrorsMatchFailed ==
    \A id \in DOMAIN jobs :
        /\ Len(jobs[id].errors) = jobs[id].failed
        /\ \A p \in 1..Len(jobs[id].errors) :
              \A q \in 1..Len(jobs[id].errors) :
                  p < q => jobs[id].errors[p].row < jobs[id].errors[q].row

\* Row 1 has no image and row 2 failed after its attempts: two entries.
C29_Witness ==
    \E id \in DOMAIN jobs :
        /\ jobs[id].failed = 2
        /\ Len(jobs[id].errors) = 2
        /\ jobs[id].errors[1] = [row |-> 1, error |-> "No image URL"]
        /\ jobs[id].errors[2].row = 2
        /\ jobs[id].errors[2].error # "No image URL"

-----------------------------------------------------------------------------
(* C30: once the run of a job has ended (terminal status set, terminal      *)
(* event emitted), no step appends to the job's log or emits a further      *)
(* event for it, as long as the job is stored.                              *)

C30_EndedStep ==
    \A id \in DOMAIN jobs :
        (rt[id].pc = "finished" /\ id \in DOMAIN jobs') =>
            /\ jobs'[id].logs = jobs[id].logs
            /\ emitted'[id] = emitted[id]

C30_SilentAfterEnd == [][C30_EndedStep]_vars

====
